---- MODULE Spec2Model ----
(***************************************************************************)
(* A model of package tracker (src/tracker.go): a Track owns a trace       *)
(* (Data, a slice of Meta checkpoints), a logging toggle, an *Options      *)
(* pointer and an embedded Renderer.  One action per exported operation.   *)
(* Time is the monotonic clock in nanoseconds; every clock read inside a   *)
(* call may see a later instant than the read before it.                   *)
(***************************************************************************)
EXTENDS Integers, Sequences, FiniteSets, TLC

VARIABLES
    Data,        \* Track.Data: the trace, a sequence of Meta records
    Loggable,    \* Track.Loggable
    callerSkip,  \* Track.callerSkip
    options,     \* Track.options: Nil, or RefAt(a, o) for the Options object o at address a
    stale,       \* an Options object of an earlier Configure the caller still holds, or Nil
    Renderer,    \* Track.Renderer: Nil, or Ref(r) for the renderer value r it holds
    now,         \* the monotonic clock (ns), as last read
    stdout,      \* number of lines fmt.Println has printed so far
    ret,         \* outcome of the last call
    written      \* what the last call wrote to the renderer's sink

vars == <<Data, Loggable, callerSkip, options, stale, Renderer, now, stdout, ret, written>>

----------------------------------------------------------------------------
(* Bounds of the model *)

MaxLen == 3        \* checkpoints in a trace
MaxClock == 2      \* last instant of the clock
MaxDivider == 2    \* largest RenderOptions.Divider tried
LongClock == 4     \* last instant of the clock in the runs of Update(nil) alone

CallerSkips == {0, 2}
Errs == {<<>>, <<"boom">>}     \* the error interface: nil, or a value with its message
Dividers == {0, 1, MaxDivider}    \* none, one, and the largest

----------------------------------------------------------------------------
(* Values *)

\* A pointer or interface value is Nil or Ref(v); Deref reads what it refers to.
Nil == <<>>
Ref(v) == <<v>>

\* A pointer to an object that can be told from another of equal content: the
\* object v at address a.  Deref reads it as it reads Ref(v).
RefAt(a, v) == <<v, a>>
Addr(p) == p[2]

\* new(T): an address no pointer still held refers to, `live` being the one
\* pointer other than the result that stays held after the call
FreshAddr(live) == IF live # Nil /\ Addr(live) = 1 THEN 2 ELSE 1
Deref(p) == p[1]

NilErr == <<>>

\* errors.New(s)
ErrorsNew(s) == <<s>>

\* err.Error() of a non-nil error
ErrorText(e) == e[1]

\* The import path of the package, which qualifies the names (*Func).Name() returns
Pkg == "github.com/cat-in-vacuum/tracker"

\* The functions of the package that call trace()
NewSite == Pkg \o ".New"
UpdateSite == Pkg \o ".(*Track).Update"

\* The goroutine's stack during a call of trace() made from `site`, innermost first.
Stack(site) ==
    <<"runtime.Callers", Pkg \o ".trace", site, "main.main", "runtime.main", "runtime.goexit">>

\* trace(skip): pc := make([]uintptr, skip) panics for a negative skip;
\* runtime.Callers(skip, pc) fills pc[0] with the frame `skip` levels above
\* Callers, or leaves it 0 when the stack is shallower; pc[0] is out of range
\* when skip is 0; (*Func)(nil).Name() is "".
trace(skip, site) ==
    IF skip < 0
    THEN [outcome |-> "panic: runtime error: makeslice: len out of range", value |-> ""]
    ELSE IF skip = 0
    THEN [outcome |-> "panic: runtime error: index out of range [0] with length 0",
          value |-> ""]
    ELSE [outcome |-> "returned",
          value |-> IF skip + 1 <= Len(Stack(site)) THEN Stack(site)[skip + 1] ELSE ""]

\* The zero value of Options / new(Options)
NewOptions ==
    [withErrors |-> FALSE, withName |-> FALSE, withSinceStart |-> FALSE,
     withDuration |-> FALSE, withTrack |-> FALSE, withLink |-> FALSE]

\* What the last call gave its caller: the operation, how it ended, the number
\* or the pointer it returned, its writes on the sink and its lines in the log
NoRet ==
    [op |-> "-", outcome |-> "returned", value |-> 0, object |-> Nil, writes |-> 0,
     oplog |-> 0]
NoOutput == [kind |-> "none", header |-> <<>>, rows |-> <<>>, payload |-> <<>>]

Returned(op, v) == [NoRet EXCEPT !.op = op, !.value = v]
Outcome(op, o) == [NoRet EXCEPT !.op = op, !.outcome = o]
ReturnedObject(op, p) == [NoRet EXCEPT !.op = op, !.object = p]

----------------------------------------------------------------------------
(* New *)

\* Mutant of NewMeta: the durations measured by a clock read one tick after Start.
NewMetaMeasured(skip, t) ==
    [Name |-> trace(skip, NewSite).value, Start |-> t, Dur |-> (t + 1) - t,
     StartDif |-> (t + 1) - t, Err |-> NilErr]

\* The Meta literal of New: Start read from the clock, the durations left zero.
NewMeta(skip, t) ==
    [Name |-> trace(skip, NewSite).value, Start |-> t, Dur |-> 0, StartDif |-> 0,
     Err |-> NilErr]

\* The state New(callerSkip) returns.  New(0) panics in trace and returns no
\* Track.  t.Loggable is the zero value when New tests it, so nothing is printed.
InitNew ==
    /\ callerSkip \in CallerSkips
    /\ trace(callerSkip, NewSite).outcome = "returned"
    /\ now = 0
    /\ Data = <<NewMeta(callerSkip, now)>>
    /\ Loggable = FALSE
    /\ stdout = 0
    /\ options = Nil
    /\ stale = Nil
    /\ Renderer = Nil
    /\ ret = Returned("New", 0)
    /\ written = NoOutput

\* A Track that New did not make: a Track literal with an empty trace.
InitZero ==
    /\ callerSkip = 0
    /\ now = 0
    /\ Data = <<>>
    /\ Loggable \in BOOLEAN
    /\ stdout = 0
    /\ options = Nil
    /\ stale = Nil
    /\ Renderer = Nil
    /\ ret = NoRet
    /\ written = NoOutput

\* A Track that New did not make: a Track literal whose Data the caller filled
\* with one zero Meta.  callerSkip is unexported and stays zero.
InitLiteral ==
    /\ callerSkip = 0
    /\ now = 0
    /\ Data = <<[Name |-> "", Start |-> 0, Dur |-> 0, StartDif |-> 0, Err |-> NilErr]>>
    /\ Loggable \in BOOLEAN
    /\ stdout = 0
    /\ options = Nil
    /\ stale = Nil
    /\ Renderer = Nil
    /\ ret = NoRet
    /\ written = NoOutput

----------------------------------------------------------------------------
(* Update *)

\* Meta.Since(): time.Since(iter.Start), at the instant `t` of the read
Since(meta, t) == t - meta.Start

\* Mutant of UpdateMeta: StartDif measured from the previous checkpoint.
UpdateMetaFromPrevious(data, skip, err, t1, t2, t3) ==
    [Name     |-> trace(skip, UpdateSite).value,
     Start    |-> t1,
     Dur      |-> Since(data[Len(data)], t2),
     StartDif |-> Since(data[Len(data)], t3),
     Err      |-> err]

\* Mutant of UpdateMeta: Dur measured from the first checkpoint's timestamp.
UpdateMetaDurFromFirst(data, skip, err, t1, t2, t3) ==
    [Name     |-> trace(skip, UpdateSite).value,
     Start    |-> t1,
     Dur      |-> Since(data[1], t2),
     StartDif |-> Since(data[Len(data)], t3),
     Err      |-> err]

\* The Meta literal of Update.  Its fields are evaluated in order, each with
\* its own clock read: t1 for Start, t2 for Dur, t3 for StartDif.
UpdateMeta(data, skip, err, t1, t2, t3) ==
    [Name     |-> trace(skip, UpdateSite).value,
     Start    |-> t1,
     Dur      |-> Since(data[Len(data)], t2),
     StartDif |-> Since(data[1], t3),
     Err      |-> err]

\* Mutant of NotStarted: the test off by one.
NotStartedOffByOne(data) == Len(data) <= 1

\* if len(t.Data) < 1
NotStarted(data) == Len(data) < 1

\* Update(err).  The Meta literal calls trace first: a panic there leaves the
\* Track as it was.  The clock is then read three times, at t1 <= t2 <= t3; any
\* time may have passed since the last read (now <= t1).
UpdateWith(err, clock) ==
    IF NotStarted(Data)
    THEN /\ ret' = Outcome("Update", "error: at first need to invoke New(int)")
         /\ written' = NoOutput
         /\ UNCHANGED <<stale, Data, Loggable, callerSkip, options, Renderer, now, stdout>>
    ELSE IF trace(callerSkip, UpdateSite).outcome # "returned"
    THEN /\ ret' = Outcome("Update", trace(callerSkip, UpdateSite).outcome)
         /\ written' = NoOutput
         /\ UNCHANGED <<stale, Data, Loggable, callerSkip, options, Renderer, now, stdout>>
    ELSE /\ Len(Data) < MaxLen
         /\ \E t1 \in now..clock :
              \E t2 \in t1..clock :
                \E t3 \in t2..clock :
                  /\ Data' = Append(Data, UpdateMeta(Data, callerSkip, err, t1, t2, t3))
                  /\ now' = t3
         /\ stdout' = IF Loggable THEN stdout + 1 ELSE stdout
         /\ ret' = Outcome("Update", "nil")
         /\ written' = NoOutput
         /\ UNCHANGED <<stale, Loggable, callerSkip, options, Renderer>>

\* Update with any error, while the clock is within the short bound
Update == \E err \in Errs : now <= MaxClock /\ UpdateWith(err, MaxClock)

\* Update(nil), while the clock is within the long bound
UpdateNil == \E err \in {NilErr} : now <= LongClock /\ UpdateWith(err, LongClock)

\* The caller assigns the exported field t.Loggable.
SetLoggable ==
    \E b \in BOOLEAN :
        /\ Loggable' = b
        /\ ret' = NoRet
        /\ written' = NoOutput
        /\ UNCHANGED <<stale, Data, callerSkip, options, Renderer, now, stdout>>

----------------------------------------------------------------------------
(* Trace statistics *)

RECURSIVE MaxFromReversed(_, _, _)
\* Mutant of MaxFrom: the comparison reversed.
MaxFromReversed(m, i, max) ==
    IF i > Len(m) THEN max
    ELSE MaxFromReversed(m, i + 1, IF max > m[i].Dur THEN m[i].Dur ELSE max)

RECURSIVE MaxFrom(_, _, _)
\* The loop of MaxDuration from element i on, with `max` so far
MaxFrom(m, i, max) ==
    IF i > Len(m) THEN max
    ELSE MaxFrom(m, i + 1, IF max < m[i].Dur THEN m[i].Dur ELSE max)

MaxDuration(m) == MaxFrom(m, 1, 0)

RECURSIVE MinFrom(_, _, _)
\* The loop of MinDuration over rest = m[1:], from its 0-based index i on
MinFrom(rest, i, min) ==
    IF i >= Len(rest) THEN min
    ELSE MinFrom(rest, i + 1,
                 IF i = 0 \/ rest[i + 1].Dur < min THEN rest[i + 1].Dur ELSE min)

\* MinDuration of a non-empty m (m[1:] of an empty slice is out of range)
MinDuration(m) == MinFrom(Tail(m), 0, 0)

CallMaxDuration ==
    /\ ret' = Returned("MaxDuration", MaxDuration(Data))
    /\ written' = NoOutput
    /\ UNCHANGED <<stale, Data, Loggable, callerSkip, options, Renderer, now, stdout>>

CallMinDuration ==
    /\ ret' = IF Len(Data) = 0
              THEN Outcome("MinDuration", "panic: slice bounds out of range")
              ELSE Returned("MinDuration", MinDuration(Data))
    /\ written' = NoOutput
    /\ UNCHANGED <<stale, Data, Loggable, callerSkip, options, Renderer, now, stdout>>

----------------------------------------------------------------------------
(* Options *)

\* Mutant of Attached: the object already attached is kept.
AttachedReused(p, a) == IF p = Nil THEN RefAt(a, NewOptions) ELSE p

\* t.options = new(Options): what Configure attaches in place of p, a being
\* the address of the new object
Attached(p, a) == RefAt(a, NewOptions)

\* Configure(): return t.options.  The caller lets go of the pointer to the
\* object attached before; `stale` is a pointer it may have kept from earlier.
Configure ==
    /\ options' = Attached(options, FreshAddr(stale))
    /\ ret' = ReturnedObject("Configure", options')
    /\ written' = NoOutput
    /\ UNCHANGED <<stale, Data, Loggable, callerSkip, Renderer, now, stdout>>

\* Configure() by a caller that keeps the pointer the last Configure returned.
ConfigureAgain ==
    /\ options # Nil
    /\ stale' = options
    /\ options' = Attached(options, FreshAddr(options))
    /\ ret' = ReturnedObject("Configure", options')
    /\ written' = NoOutput
    /\ UNCHANGED <<Data, Loggable, callerSkip, Renderer, now, stdout>>

\* The five toggles, on the object Configure returned
SetErrors(o) == [o EXCEPT !.withErrors = TRUE]
SetName(o) == [o EXCEPT !.withName = TRUE]
SetSinceStart(o) == [o EXCEPT !.withSinceStart = TRUE]
SetDuration(o) == [o EXCEPT !.withDuration = TRUE]
SetTrack(o) == [o EXCEPT !.withTrack = TRUE]

\* A toggle called on the attached object, o being what it leaves in it:
\* the object is written in place and `return o` gives back the receiver.
Toggle(o) ==
    /\ options # Nil
    /\ options' = RefAt(Addr(options), o)
    /\ ret' = ReturnedObject("With", options')
    /\ written' = NoOutput
    /\ UNCHANGED <<stale, Data, Loggable, callerSkip, Renderer, now, stdout>>

WithErrors == options # Nil /\ Toggle(SetErrors(Deref(options)))
WithName == options # Nil /\ Toggle(SetName(Deref(options)))
WithSinceStart == options # Nil /\ Toggle(SetSinceStart(Deref(options)))
WithDuration == options # Nil /\ Toggle(SetDuration(Deref(options)))
WithTrack == options # Nil /\ Toggle(SetTrack(Deref(options)))

\* Any of the five toggles, called on the object the caller kept
WithOnStale ==
    /\ stale # Nil
    /\ \E o \in {SetErrors(Deref(stale)), SetName(Deref(stale)),
                  SetSinceStart(Deref(stale)), SetDuration(Deref(stale)),
                  SetTrack(Deref(stale))} :
          stale' = RefAt(Addr(stale), o)
    /\ ret' = ReturnedObject("With", stale')
    /\ written' = NoOutput
    /\ UNCHANGED <<Data, Loggable, callerSkip, options, Renderer, now, stdout>>

----------------------------------------------------------------------------
(* Renderers *)

\* The renderer values a caller installs: a JSONRender (its Options are never
\* read), or a TableRender whose Options holds a Divider.
Renderers ==
    {[kind |-> "JSONRender", Options |-> Nil]}
    \cup {[kind |-> "TableRender", Options |-> Ref([Divider |-> d])] : d \in Dividers}

\* The TableRender of the scenario of two Update(nil) calls: Divider 4
ScenarioRenderers == {[kind |-> "TableRender", Options |-> Ref([Divider |-> 4])]}

\* SetRenderer has no result and writes no other field
SetRendererRest ==
    /\ ret' = NoRet
    /\ written' = NoOutput
    /\ UNCHANGED <<stale, Data, Loggable, callerSkip, options, now, stdout>>

\* SetRenderer(render): t.Renderer = render
SetRenderer == \E render \in Renderers : Renderer' = Ref(render) /\ SetRendererRest

SetRendererScenario ==
    \E render \in ScenarioRenderers : Renderer' = Ref(render) /\ SetRendererRest

\* time.Duration.String() for |d| < 1us
DurationString(d) == IF d = 0 THEN "0s" ELSE ToString(d) \o "ns"

createHeaders(s, opt) ==
    LET s1 == IF opt.withName THEN Append(s, "func.name") ELSE s
        s2 == IF opt.withSinceStart THEN Append(s1, "since.start") ELSE s1
        s3 == IF opt.withDuration THEN Append(s2, "duration") ELSE s2
        s4 == IF opt.withErrors THEN Append(s3, "errors") ELSE s3
        s5 == IF opt.withTrack THEN Append(s4, "track") ELSE s4
    IN  s5

\* Mutant of createRow: the duration cell appended before the since-start cell.
createRowSwapped(opt, meta, timeLine) ==
    LET s0 == <<>>
        s1 == IF opt.withName THEN Append(s0, meta.Name) ELSE s0
        s2 == IF opt.withDuration THEN Append(s1, DurationString(meta.Dur)) ELSE s1
        s3 == IF opt.withSinceStart THEN Append(s2, DurationString(meta.StartDif)) ELSE s2
        s4 == IF opt.withErrors
              THEN Append(s3, IF meta.Err = NilErr THEN "" ELSE ErrorText(meta.Err))
              ELSE s3
        s5 == IF opt.withTrack THEN Append(s4, timeLine) ELSE s4
    IN  s5

createRow(opt, meta, timeLine) ==
    LET s0 == <<>>
        s1 == IF opt.withName THEN Append(s0, meta.Name) ELSE s0
        s2 == IF opt.withSinceStart THEN Append(s1, DurationString(meta.StartDif)) ELSE s1
        s3 == IF opt.withDuration THEN Append(s2, DurationString(meta.Dur)) ELSE s2
        s4 == IF opt.withErrors
              THEN Append(s3, IF meta.Err = NilErr THEN "" ELSE ErrorText(meta.Err))
              ELSE s3
        s5 == IF opt.withTrack THEN Append(s4, timeLine) ELSE s4
    IN  s5

RECURSIVE TimeLineWhole(_, _, _, _)
\* Mutant of TimeLineFrom: a marker only for each whole step that fits in dur.
TimeLineWhole(k, dur, step, timeLine) ==
    IF k < dur /\ k + step <= dur
    THEN TimeLineWhole(k + step, dur, step, timeLine \o "*")
    ELSE timeLine

RECURSIVE TimeLineFrom(_, _, _, _)
\* for k := 0; k < int(data[i].Dur); k += step { timeLine = timeLine + "*" }
\* (used only where the loop ends: step > 0, or dur <= k)
TimeLineFrom(k, dur, step, timeLine) ==
    IF k < dur THEN TimeLineFrom(k + step, dur, step, timeLine \o "*") ELSE timeLine

\* Whether that loop ever ends
LoopEnds(dur, step) == dur <= 0 \/ step > 0

\* step := int(data.MaxDuration()) / tbr.Options.Divider, for a Divider # 0
Step(data, ropts) == MaxDuration(data) \div Deref(ropts).Divider

RECURSIVE RenderRows(_, _, _, _, _)
\* The row loop of TableRender.Render from row i on, `rows` appended so far:
\* the rows and how the loop ended.
RenderRows(data, opt, ropts, i, rows) ==
    IF i > Len(data) THEN [outcome |-> "returned", rows |-> rows]
    ELSE IF ropts = Nil
    THEN [outcome |-> "panic: nil pointer dereference", rows |-> rows]
    ELSE IF Deref(ropts).Divider = 0
    THEN [outcome |-> "panic: integer divide by zero", rows |-> rows]
    ELSE LET step == Step(data, ropts)
         IN  IF ~LoopEnds(data[i].Dur, step)
             THEN [outcome |-> "diverges", rows |-> rows]
             ELSE RenderRows(data, opt, ropts, i + 1,
                     Append(rows,
                            createRow(opt, data[i],
                                      TimeLineFrom(0, data[i].Dur, step, ""))))

\* Mutant of TableRender: the row loop ranges over data[1:].
TableRenderTail(data, opt, ropts) ==
    IF opt = Nil
    THEN [outcome |-> "panic: nil pointer dereference", header |-> <<>>, rows |-> <<>>]
    ELSE LET r == RenderRows(Tail(data), Deref(opt), ropts, 1, <<>>)
         IN  [outcome |-> r.outcome,
              header |-> createHeaders(<<>>, Deref(opt)),
              rows |-> r.rows]

\* TableRender.Render(data, opt): createHeaders reads through opt first.
TableRender(data, opt, ropts) ==
    IF opt = Nil
    THEN [outcome |-> "panic: nil pointer dereference", header |-> <<>>, rows |-> <<>>]
    ELSE LET r == RenderRows(data, Deref(opt), ropts, 1, <<>>)
         IN  [outcome |-> r.outcome,
              header |-> createHeaders(<<>>, Deref(opt)),
              rows |-> r.rows]

\* Mutant of AfterRows: the assignment made to data[i].Err, through the slice.
AfterRowsAliased(data) ==
    [i \in 1..Len(data) |->
        IF data[i].Err = NilErr THEN [data[i] EXCEPT !.Err = ErrorsNew("")] ELSE data[i]]

\* What the row loop leaves in the caller's slice: `v` is a copy of data[i],
\* so the assignment v.Err = errors.New("") does not reach it.
AfterRows(data) == data

\* json.MarshalIndent of one Meta: an error value has no exported field and
\* encodes as {}, a nil error as null.
MarshalMeta(meta) ==
    [name |-> meta.Name, start |-> meta.Start, dur |-> meta.Dur,
     start_dif |-> meta.StartDif,
     error |-> IF meta.Err = NilErr THEN "null" ELSE "{}"]

MarshalIndent(data) == [i \in 1..Len(data) |-> MarshalMeta(data[i])]

\* Whether json.MarshalIndent can fail on data: only through the dynamic type
\* of a non-nil Err (one whose encoding returns an error); the other fields
\* always encode.
EncodeOutcomes(data) ==
    IF \E i \in 1..Len(data) : data[i].Err # NilErr THEN BOOLEAN ELSE {FALSE}

\* Mutant of JSONRender: return once the encoding error is logged.
JSONRenderReturnEarly(data, encodeFails, writeFails) ==
    IF encodeFails
    THEN [outcome |-> "returned", writes |-> 0, oplog |-> 1, output |-> NoOutput]
    ELSE [outcome |-> "returned", writes |-> 1,
          oplog |-> IF writeFails THEN 1 ELSE 0,
          output |-> IF writeFails THEN NoOutput
                     ELSE [NoOutput EXCEPT !.kind = "json",
                                           !.payload = MarshalIndent(data)]]

\* JSONRender.Render(data, opt): a failed encoding is logged and leaves a nil
\* payload, which is written all the same; a failed write is logged.
JSONRender(data, encodeFails, writeFails) ==
    [outcome |-> "returned",
     writes |-> 1,
     oplog |-> (IF encodeFails THEN 1 ELSE 0) + (IF writeFails THEN 1 ELSE 0),
     output |-> IF writeFails THEN NoOutput
                ELSE [NoOutput EXCEPT !.kind = "json",
                        !.payload = IF encodeFails THEN <<>> ELSE MarshalIndent(data)]]

\* Mutant of Delegated: only the first checkpoint is handed over.
DelegatedFirstOnly(renderer, data, opt) ==
    [callee |-> renderer, data |-> SubSeq(data, 1, 1), opt |-> opt]

\* t.Renderer.Render(t.Data, t.options): the callee and its arguments
Delegated(renderer, data, opt) ==
    [callee |-> renderer, data |-> data, opt |-> opt]

\* Track.Render.  The call and its result are bound with \E over a singleton,
\* which evaluates each once.
Render ==
    IF Renderer = Nil
    THEN /\ ret' = Outcome("Render", "panic: nil pointer dereference")
         /\ written' = NoOutput
         /\ UNCHANGED <<stale, Data, Loggable, callerSkip, options, Renderer, now, stdout>>
    ELSE \E call \in {Delegated(Deref(Renderer), Data, options)} :
             IF call.callee.kind = "TableRender"
             THEN \E t \in {TableRender(call.data, call.opt, call.callee.Options)} :
                      /\ ret' = [Outcome("Render", t.outcome) EXCEPT
                                    !.writes = IF t.outcome = "returned" THEN 1 ELSE 0]
                      /\ written' = IF t.outcome = "returned"
                                    THEN [NoOutput EXCEPT !.kind = "table",
                                             !.header = t.header, !.rows = t.rows]
                                    ELSE NoOutput
                      /\ Data' = AfterRows(Data)
                      /\ UNCHANGED <<stale, Loggable, callerSkip, options, Renderer, now,
                                     stdout>>
             ELSE \E encodeFails \in EncodeOutcomes(call.data), writeFails \in BOOLEAN :
                      \E j \in {JSONRender(call.data, encodeFails, writeFails)} :
                          /\ ret' = [Outcome("Render", j.outcome) EXCEPT
                                        !.writes = j.writes, !.oplog = j.oplog]
                          /\ written' = j.output
                          /\ UNCHANGED <<stale, Data, Loggable, callerSkip, options,
                                         Renderer, now, stdout>>

----------------------------------------------------------------------------
(* Specifications *)

Next ==
    \/ Update
    \/ Configure
    \/ WithErrors
    \/ WithName
    \/ WithSinceStart
    \/ WithDuration
    \/ WithTrack
    \/ SetRenderer
    \/ Render

\* A Track made by New, driven by any sequence of calls
Spec == InitNew /\ [][Next]_vars

\* A Track made by New or a Track literal, driven by any sequence of calls
InitAny == InitNew \/ InitZero \/ InitLiteral
SpecAny == InitAny /\ [][Next]_vars

\* The trace and its statistics alone
NextStats ==
    \/ Update
    \/ CallMaxDuration
    \/ CallMinDuration

SpecStats == InitAny /\ [][NextStats]_vars

\* The trace and the logging toggle alone
NextLog ==
    \/ Update
    \/ SetLoggable

SpecLog == InitNew /\ [][NextLog]_vars

\* The options objects alone: the trace stays as New made it
NextOptions ==
    \/ Configure
    \/ ConfigureAgain
    \/ WithErrors
    \/ WithName
    \/ WithSinceStart
    \/ WithDuration
    \/ WithTrack
    \/ WithOnStale
    \/ SetRenderer
    \/ Render

SpecOptions == InitNew /\ [][NextOptions]_vars

\* Every operation that is handed the trace, with the two toggles that decide
\* whether the error and the track cells are built
NextFrame ==
    \/ Update
    \/ Configure
    \/ WithErrors
    \/ WithTrack
    \/ SetRenderer
    \/ Render
    \/ CallMaxDuration
    \/ CallMinDuration

SpecFrame == InitAny /\ [][NextFrame]_vars

\* The table of names and durations: Update with any error within the short
\* clock or Update(nil) within the long one, and any renderer or the one with
\* Divider 4
NextTable ==
    \/ Update
    \/ UpdateNil
    \/ Configure
    \/ WithName
    \/ WithDuration
    \/ SetRenderer
    \/ SetRendererScenario
    \/ Render

SpecTable == InitNew /\ [][NextTable]_vars

----------------------------------------------------------------------------
(* Properties *)

\* The last call was Track.Render on an installed TableRender
RenderedTable ==
    /\ ret.op = "Render"
    /\ Renderer # Nil
    /\ Deref(Renderer).kind = "TableRender"

\* The Divider and the step of the installed TableRender
DividerNow == Deref(Deref(Renderer).Options).Divider
StepNow == Step(Data, Deref(Renderer).Options)

Crashed(outcome) ==
    outcome \in {"panic: nil pointer dereference", "panic: integer divide by zero",
                 "panic: slice bounds out of range"}

\* The visual-track cell of written row i (the last cell, when withTrack is set)
TrackCell(i) == written.rows[i][Len(written.rows[i])]

CeilDiv(a, b) == (a + b - 1) \div b

RECURSIVE Stars(_)
Stars(n) == IF n <= 0 THEN "" ELSE "*" \o Stars(n - 1)

\* C1: in every state reached from New by Update, Configure, the toggles,
\* SetRenderer and Render, the trace is non-empty and its first checkpoint has
\* Dur = 0 and StartDif = 0.
C1_FirstCheckpointZero ==
    /\ Len(Data) >= 1
    /\ Data[1].Dur = 0
    /\ Data[1].StartDif = 0

C1_Witness ==
    /\ Len(Data) >= 3
    /\ Data[3].StartDif > 0
    /\ ret.op = "Render"
    /\ ret.outcome = "returned"
    /\ options # Nil

\* C2: the trace is append-only.  A step of a successful Update makes the trace
\* one longer and keeps every earlier checkpoint, field for field, at its
\* index; every other step (Render with either renderer, Configure, a
\* toggle, SetRenderer, MaxDuration, MinDuration, an Update that fails) leaves
\* the trace as it was, nil errors included.
C2_AppendOnly ==
    [][/\ IF ret'.op = "Update" /\ ret'.outcome = "nil"
          THEN /\ Len(Data') = Len(Data) + 1
               /\ SubSeq(Data', 1, Len(Data)) = Data
          ELSE Data' = Data
       /\ ret'.op \in {"Render", "Configure", "With", "MaxDuration", "MinDuration"}
             => Data' = Data]_vars

C2_Witness ==
    /\ ret.op = "Render"
    /\ written.kind = "table"
    /\ Len(Data) = 3
    /\ Data[2].Err = NilErr
    /\ Data[3].Err # NilErr

\* C3: under a clock that never goes backwards, StartDif of checkpoint i is at
\* least StartDif of checkpoint i-1.
C3_SinceStartMonotonic ==
    \A i \in 2..Len(Data) : Data[i].StartDif >= Data[i - 1].StartDif

C3_Witness ==
    /\ Len(Data) >= 3
    /\ Data[2].StartDif > 0
    /\ Data[3].StartDif > Data[2].StartDif

\* C4: every checkpoint appended by Update has Dur equal to its own timestamp
\* minus the previous checkpoint's timestamp, and StartDif equal to its own
\* timestamp minus the first checkpoint's timestamp.
C4_DurationsFromOneNow ==
    \A i \in 2..Len(Data) :
        /\ Data[i].Dur = Data[i].Start - Data[i - 1].Start
        /\ Data[i].StartDif = Data[i].Start - Data[1].Start

\* C5: Render on a Track with no Renderer installed ends in an error outcome,
\* not a crash, and writes nothing.
C5_NoRendererIsAnError ==
    (ret.op = "Render" /\ Renderer = Nil) =>
        /\ ~Crashed(ret.outcome)
        /\ ret.writes = 0
        /\ written = NoOutput

\* C6: Update on an empty trace returns the error, leaves the trace empty and
\* prints no line; Update on a non-empty trace always returns nil.
C6_UpdateGuard ==
    ret.op = "Update" =>
        IF Len(Data) = 0
        THEN ret.outcome = "error: at first need to invoke New(int)" /\ stdout = 0
        ELSE ret.outcome = "nil"

\* C7: Render with a TableRender installed and Configure never called returns
\* and writes a table of zero columns.
C7_DefaultOptionsRender ==
    (RenderedTable /\ options = Nil) =>
        /\ ret.outcome = "returned"
        /\ written.kind = "table"
        /\ written.header = <<>>
        /\ \A i \in 1..Len(written.rows) : written.rows[i] = <<>>

\* C8: with a Divider of zero, or a maximal duration of zero, the tabular
\* Render returns and every row's visual track is the empty string.
C8_DivisionGuarded ==
    (RenderedTable /\ options # Nil /\ (DividerNow = 0 \/ MaxDuration(Data) = 0)) =>
        /\ ret.outcome = "returned"
        /\ Deref(options).withTrack =>
              \A i \in 1..Len(written.rows) : TrackCell(i) = ""

\* The case of C9: a tabular Render with the track column, whose step is positive
C9_Case ==
    /\ RenderedTable
    /\ options # Nil
    /\ Deref(options).withTrack
    /\ DividerNow # 0
    /\ StepNow > 0

\* C9 as stated: the number of markers in each row's visual track is
\* floor(Dur / step).
C9_MarkersFloor ==
    C9_Case =>
        /\ ret.outcome = "returned"
        /\ \A i \in 1..Len(Data) : Len(TrackCell(i)) = Data[i].Dur \div StepNow

\* C9 as amended: the number of markers in each row's visual track is
\* ceil(Dur / step), the least n with n * step >= Dur.
C9_MarkersCeil ==
    C9_Case =>
        /\ ret.outcome = "returned"
        /\ Len(written.rows) = Len(Data)
        /\ \A i \in 1..Len(Data) : Len(TrackCell(i)) = CeilDiv(Data[i].Dur, StepNow)

C9_Witness ==
    /\ C9_Case
    /\ StepNow >= 2
    /\ \E i \in 1..Len(Data) : Data[i].Dur % StepNow # 0

Columns == <<"func.name", "since.start", "duration", "errors", "track">>

Enabled(opt, col) ==
    CASE col = "func.name" -> opt.withName
      [] col = "since.start" -> opt.withSinceStart
      [] col = "duration" -> opt.withDuration
      [] col = "errors" -> opt.withErrors
      [] col = "track" -> opt.withTrack

ColumnEnabled(col) == Enabled(Deref(options), col)

\* The cell of checkpoint i under column col
Cell(col, i) ==
    CASE col = "func.name" -> Data[i].Name
      [] col = "since.start" -> DurationString(Data[i].StartDif)
      [] col = "duration" -> DurationString(Data[i].Dur)
      [] col = "errors" -> IF Data[i].Err = NilErr THEN "" ELSE ErrorText(Data[i].Err)
      [] col = "track" -> IF Data[i].Dur = 0 THEN ""
                          ELSE Stars(CeilDiv(Data[i].Dur, StepNow))

\* C10: for every combination of the five flags the header of a tabular Render
\* holds one column per enabled flag, in the order name, since-start,
\* duration, error, visual-track, and every row has one cell per header
\* column, each the cell of that column.
C10_ColumnsMatchOptions ==
    (RenderedTable /\ ret.outcome = "returned") =>
        /\ written.header = SelectSeq(Columns, ColumnEnabled)
        /\ \A i \in 1..Len(written.rows) :
              /\ Len(written.rows[i]) = Len(written.header)
              /\ \A j \in 1..Len(written.header) :
                    written.rows[i][j] = Cell(written.header[j], i)

C10_Witness ==
    /\ RenderedTable
    /\ ret.outcome = "returned"
    /\ Len(written.rows) = 3
    /\ written.header = <<"func.name", "since.start", "duration", "track">>
    /\ Data[3].StartDif # Data[3].Dur

\* The position of column col in the written header
ColumnIndex(col) == CHOOSE j \in 1..Len(written.header) : written.header[j] = col

\* C11: a tabular Render that completes writes one row per checkpoint, in the
\* order of the trace with the checkpoint of New first, and the duration cell
\* of the first row is the zero duration; with the columns {name, duration}
\* every row has two cells.
C11_OneRowPerCheckpoint ==
    (RenderedTable /\ ret.outcome = "returned") =>
        /\ Len(written.rows) = Len(Data)
        /\ ColumnEnabled("func.name") =>
              \A i \in 1..Len(written.rows) :
                  written.rows[i][ColumnIndex("func.name")] = Data[i].Name
        /\ ColumnEnabled("since.start") =>
              \A i \in 1..Len(written.rows) :
                  written.rows[i][ColumnIndex("since.start")]
                      = DurationString(Data[i].StartDif)
        /\ ColumnEnabled("duration") =>
              written.rows[1][ColumnIndex("duration")] = "0s"
        /\ written.header = <<"func.name", "duration">> =>
              \A i \in 1..Len(written.rows) : Len(written.rows[i]) = 2
        /\ (/\ DividerNow = 4
            /\ Len(Data) = 3
            /\ Data[2].Err = NilErr
            /\ Data[3].Err = NilErr
            /\ Deref(options) = [NewOptions EXCEPT !.withName = TRUE,
                                                   !.withDuration = TRUE]) =>
              /\ Len(written.rows) = 3
              /\ \A i \in 1..3 : Len(written.rows[i]) = 2
              /\ written.rows[1][2] = "0s"

\* The scenario itself, on a trace the Divider 4 does not reduce to step 0
C11_Witness ==
    /\ RenderedTable
    /\ ret.outcome = "returned"
    /\ DividerNow = 4
    /\ written.header = <<"func.name", "duration">>
    /\ Len(Data) = 3
    /\ Data[2].Err = NilErr
    /\ Data[3].Err = NilErr
    /\ MaxDuration(Data) >= 4
    /\ Data[2].Dur # Data[3].Dur
    /\ Len(written.rows) = 3
    /\ written.rows[1] = <<NewSite, "0s">>

\* C12: Render calls the Render of the renderer now installed, once, with the
\* whole trace and the options now attached: its output is of that renderer's
\* kind, is written once, and covers every checkpoint under the attached
\* options.
C12_DelegatesToInstalled ==
    (ret.op = "Render" /\ Renderer # Nil) =>
        IF Deref(Renderer).kind = "TableRender"
        THEN /\ written.kind \in {"none", "table"}
             /\ ret.outcome = "returned" =>
                   /\ ret.writes = 1
                   /\ written.kind = "table"
                   /\ Len(written.rows) = Len(Data)
                   /\ written.header = SelectSeq(Columns, ColumnEnabled)
        ELSE /\ written.kind \in {"none", "json"}
             /\ ret.outcome = "returned"
             /\ ret.writes = 1
             /\ (written.kind = "json" /\ ret.oplog = 0) =>
                   /\ Len(written.payload) = Len(Data)
                   /\ \A i \in 1..Len(Data) :
                         /\ written.payload[i].name = Data[i].Name
                         /\ written.payload[i].dur = Data[i].Dur
                         /\ written.payload[i].start_dif = Data[i].StartDif

C12_Witness ==
    /\ ret.op = "Render"
    /\ Renderer # Nil
    /\ Deref(Renderer).kind = "JSONRender"
    /\ written.kind = "json"
    /\ ret.oplog = 0
    /\ Len(written.payload) = 3
    /\ options # Nil
    /\ Deref(options).withTrack

Flags == {"withErrors", "withName", "withSinceStart", "withDuration", "withTrack"}

\* p has flag f set and every other field as in o
SetsOnly(o, p, f) == p[f] /\ \A g \in (Flags \cup {"withLink"}) \ {f} : p[g] = o[g]

\* p is o with one flag set and nothing else changed (o itself when the flag
\* was set already)
FlagStep(o, p) == \E f \in Flags : p = [o EXCEPT ![f] = TRUE]

\* C13: a Configure step attaches, and returns, a new object with all flags
\* false, which is not the object a pointer kept from earlier refers to; a
\* toggle sets its own flag and nothing else, resets none, on the object it is
\* called on and on no other, and returns a pointer to that same object;
\* toggles on an object of an earlier Configure leave the attached object, and
\* so the header Render writes, as they were.
C13_FreshOptions ==
    [][/\ ret'.op = "Configure" =>
             /\ options' # Nil
             /\ Deref(options') = NewOptions
             /\ ret'.object = options'
             /\ stale' # Nil => Addr(stale') # Addr(options')
       /\ ret'.op = "With" =>
             /\ ret'.object # Nil
             /\ \/ /\ options # Nil
                   /\ Addr(ret'.object) = Addr(options)
                   /\ options' = ret'.object
                   /\ FlagStep(Deref(options), Deref(options'))
                   /\ stale' = stale
                \/ /\ stale # Nil
                   /\ Addr(ret'.object) = Addr(stale)
                   /\ stale' = ret'.object
                   /\ FlagStep(Deref(stale), Deref(stale'))
                   /\ options' = options
       /\ ret'.op \notin {"Configure", "With"} => (options' = options /\ stale' = stale)
       /\ (options # Nil /\ stale # Nil) => Addr(options) # Addr(stale)
       /\ (ret'.op = "Render" /\ written'.kind = "table") =>
             written'.header = SelectSeq(Columns, ColumnEnabled)
       /\ options # Nil =>
             LET o == Deref(options)
             IN  /\ SetsOnly(o, SetErrors(o), "withErrors")
                 /\ SetsOnly(o, SetName(o), "withName")
                 /\ SetsOnly(o, SetSinceStart(o), "withSinceStart")
                 /\ SetsOnly(o, SetDuration(o), "withDuration")
                 /\ SetsOnly(o, SetTrack(o), "withTrack")]_vars

\* A toggle on the kept object has just returned it, flags set on it that the
\* attached object does not have
C13_Witness ==
    /\ stale # Nil
    /\ Deref(stale).withName
    /\ Deref(stale).withTrack
    /\ options # Nil
    /\ Deref(options) = [NewOptions EXCEPT !.withDuration = TRUE]
    /\ ret.op = "With"
    /\ ret.object = stale
    /\ Addr(stale) # Addr(options)

\* C14: with logging enabled the number of lines printed equals the number of
\* checkpoints in the trace (one line by New, one by each successful Update).
C14_LinesEqualCheckpoints ==
    Loggable => stdout = Len(Data)

\* C15: on a non-empty trace MaxDuration returns a value that is at least the
\* Dur of every checkpoint and is the Dur of one of them; it is zero for a
\* trace of the first checkpoint alone.
C15_MaxDuration ==
    (ret.op = "MaxDuration" /\ Len(Data) >= 1) =>
        /\ \A i \in 1..Len(Data) : ret.value >= Data[i].Dur
        /\ \E i \in 1..Len(Data) : ret.value = Data[i].Dur
        /\ Len(Data) = 1 => ret.value = 0

C15_Witness ==
    /\ ret.op = "MaxDuration"
    /\ Len(Data) = 3
    /\ Data[3].Dur > 0
    /\ Data[2].Dur > Data[3].Dur
    /\ ret.value = Data[2].Dur

\* The least element of a non-empty set of integers
Least(S) == CHOOSE m \in S : \A x \in S : m <= x

\* C16: on a trace of two checkpoints or more MinDuration returns the least Dur
\* of the checkpoints after the first; on a shorter trace it returns zero and
\* does not fail.
C16_MinDuration ==
    ret.op = "MinDuration" =>
        /\ ret.outcome = "returned"
        /\ ret.value = IF Len(Data) >= 2
                       THEN Least({Data[i].Dur : i \in 2..Len(Data)})
                       ELSE 0

\* C17: every Render of a JSONRender returns to the caller, and makes one
\* write on the sink, whether or not the encoding or the write failed.
C17_JSONBestEffort ==
    (ret.op = "Render" /\ Renderer # Nil /\ Deref(Renderer).kind = "JSONRender") =>
        /\ ret.outcome = "returned"
        /\ ret.writes = 1
        /\ ret.oplog \in 0..2
        /\ ret.oplog = 0 => written.kind = "json"

C17_Witness ==
    /\ ret.op = "Render"
    /\ Renderer # Nil
    /\ Deref(Renderer).kind = "JSONRender"
    /\ ret.oplog = 2
    /\ ret.writes = 1
    /\ written = NoOutput

\* C18: a tabular Render with a Divider of one or more ends, whatever the trace.
C18_TableRenderTerminates ==
    (RenderedTable /\ options # Nil /\ DividerNow >= 1) =>
        ret.outcome # "diverges"

\* C19: every checkpoint has StartDif >= Dur >= 0, and every checkpoint after
\* the first has Dur at least its timestamp minus the timestamp before it.
C19_DurationOrder ==
    /\ \A i \in 1..Len(Data) :
          /\ Data[i].Dur >= 0
          /\ Data[i].StartDif >= Data[i].Dur
    /\ \A i \in 2..Len(Data) :
          Data[i].Dur >= Data[i].Start - Data[i - 1].Start

C19_Witness ==
    /\ Len(Data) = 3
    /\ Data[3].Dur > Data[3].Start - Data[2].Start
    /\ Data[3].StartDif > Data[3].Dur
    /\ Data[2].Start > Data[1].Start

====
